---- MODULE Spec2Model ----
(***************************************************************************)
(* Token lifecycle of the Flask authentication backend                     *)
(* (src/static/____backend-auth-example.py): login, callback, refresh,     *)
(* logout, verify-token, direct-token, user info, token details and tenant *)
(* selection, as seen from one browser session, and the NGSI-LD proxy of   *)
(* the same backend next to the minimal proxy of src/backend/app.py.  The  *)
(* Flask session is a signed cookie, so the session dictionary and the     *)
(* cookie jar are both state of the browser.  A handler answers from the    *)
(* cookies its request carried; the browser applies the response at once,  *)
(* or later, after other requests of the same browser were answered.       *)
(***************************************************************************)
EXTENDS Integers, Sequences, FiniteSets, TLC

VARIABLES
    session,     \* the Flask session dict: oauth_state, user, tenant
    jar,         \* the browser's cookies: access_token, refresh_token, logged_out
    req,         \* the last request: handler, parameters, identity-provider answer
    resp,        \* the last response: status, Set-Cookie directives, provider calls
    out,         \* the last response's headers and body, and the broker request made
    logins,      \* number of logins so far (the source of fresh uuid4 values)
    state_used,  \* history: a callback has compared the stored oauth_state
    inflight,    \* requests the server has answered whose response is on its way
    after_logout \* history: a logout was applied and no grant has succeeded since

vars == <<session, jar, req, resp, out, logins, state_used, inflight, after_logout>>

-----------------------------------------------------------------------------
(* Bounds of the model                                                     *)

MaxLogins == 2
MaxInFlight == 1

-----------------------------------------------------------------------------
(* Python / JSON values                                                    *)

\* An optional string or token: Python's None, or a value.
None_ == [some |-> FALSE, v |-> ""]
Some(x) == [some |-> TRUE, v |-> x]

\* Python truthiness of an optional string (`if not state`, `if not code`).
Truthy(o) == o.some /\ o.v # ""

\* JSON values as they come out of json.loads.
JStr(s) == [t |-> "str", s |-> s, l |-> <<>>, n |-> 0]
JList(l) == [t |-> "list", s |-> "", l |-> l, n |-> 0]
JNum(n) == [t |-> "num", s |-> "", l |-> <<>>, n |-> n]
JNull == [t |-> "null", s |-> "", l |-> <<>>, n |-> 0]
JBool(b) == [t |-> "bool", s |-> "", l |-> <<>>, n |-> IF b THEN 1 ELSE 0]
JAbsent == [t |-> "absent", s |-> "", l |-> <<>>, n |-> 0]

\* Python truthiness of a JSON value (`if not tenant`, `if not data`).
JTruthy(j) ==
    CASE j.t = "str" -> j.s # ""
      [] j.t = "list" -> j.l # <<>>
      [] j.t \in {"num", "bool"} -> j.n # 0
      [] OTHER -> FALSE

\* `sub in s` for two strings.
Contains(s, sub) ==
    \E i \in 1..(Len(s) - Len(sub) + 1) : SubSeq(s, i, i + Len(sub) - 1) = sub

\* `key in j` for a JSON value that is no object: element of a list,
\* substring of a string; a TypeError for a number, a boolean or null.
PyIn(key, j) ==
    CASE j.t = "str" -> Contains(j.s, key)
      [] j.t = "list" -> \E i \in DOMAIN j.l : j.l[i] = key
      [] OTHER -> FALSE

\* `not data or k1 not in data or ...` followed by data[k1], for a request
\* body that is JSON but no object: 400 when the body is falsy or lacks a
\* key, 500 when `in` or the subscript raises TypeError.
NonObjectBodyStatus(val, keys) ==
    IF ~JTruthy(val) THEN 400
    ELSE IF val.t \notin {"str", "list"} THEN 500
    ELSE IF \E k \in keys : ~PyIn(k, val) THEN 400
    ELSE 500

\* dict.get(key, default)
Get(d, k, default) == IF k \in DOMAIN d THEN d[k] ELSE default

NoClaims == [k \in {} |-> JAbsent]

-----------------------------------------------------------------------------
(* Tokens.  A token string is the sequence of its dot-separated segments   *)
(* (str.split('.')); a segment is what base64.b64decode and json.loads     *)
(* make of it.                                                             *)

Obj(claims) == [kind |-> "object", claims |-> claims, val |-> JAbsent]
\* base64 of a JSON value that is no object: json.loads returns it
ValueSeg(j) == [kind |-> "value", claims |-> NoClaims, val |-> j]
\* base64 of text that is no JSON: json.loads raises
NotJsonSeg == [kind |-> "notjson", claims |-> NoClaims, val |-> JAbsent]
\* b64decode raises
BadB64Seg == [kind |-> "badb64", claims |-> NoClaims, val |-> JAbsent]
HeaderSeg == Obj([k \in {"alg"} |-> JStr("RS256")])
SigSeg == NotJsonSeg

Jwt(claims) == <<HeaderSeg, Obj(claims), SigSeg>>
NoToken == <<>>

\* token.split('.')[1], padded, b64decoded and json.loads-ed (lines 159-163,
\* 324-328, 387-391): IndexError when there is no second segment, an exception
\* when the segment is not base64 of JSON.  The claim lookups that follow raise
\* on anything that is not a JSON object, inside the same try block.
DecodeClaims(token) ==
    IF Len(token) < 2 THEN [ok |-> FALSE, claims |-> NoClaims]
    ELSE IF token[2].kind # "object" THEN [ok |-> FALSE, claims |-> NoClaims]
    ELSE [ok |-> TRUE, claims |-> token[2].claims]

\* The variant of verify_token and get_direct_token: len(token_parts) != 3 is
\* answered before decoding (lines 476-485, 590-599).
HasThreeParts(token) == Len(token) = 3

-----------------------------------------------------------------------------
(* Tenant resolution: the if/elif chain repeated in every handler.         *)

DefaultTenant == JStr("Default")

ResolveTenant_SwappedOrder(claims, fallback) ==
    IF "TenantId" \in DOMAIN claims THEN
        IF claims["TenantId"].t = "list" /\ claims["TenantId"].l # <<>>
            THEN JStr(claims["TenantId"].l[1])
        ELSE IF claims["TenantId"].t = "str" THEN claims["TenantId"]
        ELSE DefaultTenant
    ELSE IF "tenantId" \in DOMAIN claims THEN claims["tenantId"]
    ELSE IF "tenant_id" \in DOMAIN claims THEN claims["tenant_id"]
    ELSE IF "tenant" \in DOMAIN claims THEN claims["tenant"]
    ELSE IF "Tenant" \in DOMAIN claims THEN claims["Tenant"]
    ELSE fallback

\* `tenant = 'Default'` followed by the chain; the last else is the handler's
\* fallback ('Default' everywhere but get_user_info, which reads the session).
ResolveTenant(claims, fallback) ==
    IF "TenantId" \in DOMAIN claims THEN
        IF claims["TenantId"].t = "list" /\ claims["TenantId"].l # <<>>
            THEN JStr(claims["TenantId"].l[1])
        ELSE IF claims["TenantId"].t = "str" THEN claims["TenantId"]
        ELSE DefaultTenant
    ELSE IF "tenant_id" \in DOMAIN claims THEN claims["tenant_id"]
    ELSE IF "tenantId" \in DOMAIN claims THEN claims["tenantId"]
    ELSE IF "Tenant" \in DOMAIN claims THEN claims["Tenant"]
    ELSE IF "tenant" \in DOMAIN claims THEN claims["tenant"]
    ELSE fallback

-----------------------------------------------------------------------------
(* Session and cookies                                                     *)

NoUser == [some |-> FALSE, username |-> JAbsent, tenant |-> JAbsent]

\* session['user'] = {'username': ..., 'tenant': tenant}
UserRecord(claims, tenant) ==
    [some |-> TRUE,
     username |-> Get(claims, "preferred_username", JStr("unknown_user")),
     tenant |-> tenant]

EmptySession == [oauth_state |-> None_, user |-> NoUser, tenant |-> JAbsent]

NoneTok == [some |-> FALSE, v |-> NoToken]
NoneInt == [some |-> FALSE, v |-> 0]

EmptyJar == [access_token |-> NoneTok, refresh_token |-> None_, logged_out |-> None_]

\* Set-Cookie directives of a response.
KeepTok == [op |-> "none", v |-> NoToken, max_age |-> 0]
KeepStr == [op |-> "none", v |-> "", max_age |-> 0]
SetCookie(v, max_age) == [op |-> "set", v |-> v, max_age |-> max_age]
DeleteTok == [op |-> "delete", v |-> NoToken, max_age |-> 0]
DeleteStr == [op |-> "delete", v |-> "", max_age |-> 0]

\* What the browser does with a directive: Max-Age <= 0 removes the cookie.
ApplyCookie(cur, d, none) ==
    CASE d.op = "none" -> cur
      [] d.op = "delete" -> none
      [] d.op = "set" -> IF d.max_age > 0 THEN [some |-> TRUE, v |-> d.v] ELSE none

ApplyCookies(cookies, r) ==
    [access_token |-> ApplyCookie(cookies.access_token, r.set_access, NoneTok),
     refresh_token |-> ApplyCookie(cookies.refresh_token, r.set_refresh, None_),
     logged_out |-> ApplyCookie(cookies.logged_out, r.set_logged_out, None_)]

\* A response that sets no cookie.
Reply(status, calls, sess) ==
    [status |-> status, idp_calls |-> calls,
     set_access |-> KeepTok, set_refresh |-> KeepStr, set_logged_out |-> KeepStr,
     session |-> sess]

-----------------------------------------------------------------------------
(* Identity provider answers (requests.post to the token / logout URL)     *)

NoPair == [access |-> NoneTok, refresh |-> None_, expires |-> NoneInt]
NoIdp == [kind |-> "none", status |-> 0, json |-> FALSE, pair |-> NoPair]
IdpRaise == [kind |-> "raise", status |-> 0, json |-> FALSE, pair |-> NoPair]
\* json: the body parses as a JSON object (response.json() does not raise).
IdpHttp(status, json, pair) ==
    [kind |-> "http", status |-> status, json |-> json, pair |-> pair]

-----------------------------------------------------------------------------
(* HTTP headers, response bodies and the broker                            *)

\* str.lower() on one character: the upper-case ASCII letters are mapped,
\* every other character of a header name or value is left as it is.
UpperToLower ==
    ("A" :> "a") @@ ("B" :> "b") @@ ("C" :> "c") @@ ("D" :> "d") @@ ("E" :> "e")
        @@ ("F" :> "f") @@ ("G" :> "g") @@ ("H" :> "h") @@ ("I" :> "i")
        @@ ("J" :> "j") @@ ("K" :> "k") @@ ("L" :> "l") @@ ("M" :> "m")
        @@ ("N" :> "n") @@ ("O" :> "o") @@ ("P" :> "p") @@ ("Q" :> "q")
        @@ ("R" :> "r") @@ ("S" :> "s") @@ ("T" :> "t") @@ ("U" :> "u")
        @@ ("V" :> "v") @@ ("W" :> "w") @@ ("X" :> "x") @@ ("Y" :> "y")
        @@ ("Z" :> "z")

\* str.lower(): character by character, over the whole string.
RECURSIVE LowerChars(_)
LowerChars(s) ==
    IF s = "" THEN ""
    ELSE LET c == SubSeq(s, 1, 1) IN
         (IF c \in DOMAIN UpperToLower THEN UpperToLower[c] ELSE c)
             \o LowerChars(SubSeq(s, 2, Len(s)))

\* The lower-case forms of the header names and tenant values that the
\* handlers and the requests below spell out, computed once.
LowerTable ==
    [s \in {"Host", "Cookie", "Accept", "Content-Type", "Authorization",
            "NGSILD-Tenant", "NGSILD_Tenant", "AUTHORIZATION", "CONTENT-TYPE",
            "ngsild-tenant", "authorization", "accept", "content-type",
            "content-length", "Cache-Control", "Last-Modified", "X-Powered-By",
            "ETag", "etag", "Link", "Set-Cookie",
            "Access-Control-Allow-Origin", "Access-Control-Allow-Headers",
            "Access-Control-Allow-Methods",
            "acme", "default", "Default", "DEFAULT", "DeFault", "dEFAULT",
            "Synchro", "synchro", "default,other"} |-> LowerChars(s)]

\* str.lower()
Lower(s) == IF s \in DOMAIN LowerTable THEN LowerTable[s] ELSE LowerChars(s)

\* A header map is a function from header names to values.
NoHeaders == [h \in {} |-> ""]

\* The headers of a message as they are on the wire are a sequence of lines
\* <<name, value>>, where a name may come more than once and in any case.

\* sep.join(values)
RECURSIVE Join(_, _)
Join(values, sep) ==
    IF Len(values) = 1 THEN values[1]
    ELSE values[1] \o sep \o Join(Tail(values), sep)

\* The values of the lines whose lower-case name is key, in wire order;
\* lowered[i] is the lower-case name of line i.
ValuesUnder(lines, lowered, key) ==
    LET at == SelectSeq([i \in DOMAIN lines |-> i], LAMBDA i : lowered[i] = key)
    IN [j \in DOMAIN at |-> lines[at[j]][2]]

\* request.headers of Flask (lines 780-794), the view of the WSGI environ
\* that the server started by app.run (line 853) builds: a line whose name
\* holds an underscore is dropped, names are equal up to case, the values
\* of a name that comes more than once are joined with "," and for
\* Content-Type and Content-Length the last line replaces the earlier ones.
\* The map is keyed by the lower-case name.
RequestHeaders(lines) ==
    LET kept == SelectSeq(lines, LAMBDA l : ~Contains(l[1], "_"))
        lowered == [i \in DOMAIN kept |-> Lower(kept[i][1])]
    IN [k \in {lowered[i] : i \in DOMAIN kept} |->
           LET values == ValuesUnder(kept, lowered, k) IN
           IF k \in {"content-type", "content-length"}
               THEN values[Len(values)] ELSE Join(values, ",")]

\* response.headers of requests (lines 814, 822): one entry for the lines
\* whose names are equal up to case, under the name as the first of them
\* spells it, the values joined with ", ".
ResponseHeaders(lines) ==
    LET lowered == [i \in DOMAIN lines |-> Lower(lines[i][1])]
        first == {i \in DOMAIN lines : \A j \in 1..(i - 1) : lowered[j] # lowered[i]}
    IN [n \in {lines[i][1] : i \in first} |->
           Join(ValuesUnder(lines, lowered,
                            lowered[CHOOSE i \in first : lines[i][1] = n]), ", ")]

\* dict(request.headers) of Starlette (app.py line 49): the names in lower
\* case, each with the value of the first line that has it.
RequestHeadersDict(lines) ==
    LET lowered == [i \in DOMAIN lines |-> Lower(lines[i][1])]
    IN [k \in {lowered[i] : i \in DOMAIN lines} |->
           ValuesUnder(lines, lowered, k)[1]]

\* dict(response.headers) of httpx (app.py line 88): the names in lower
\* case, the values of a name that comes more than once joined with ", ".
ResponseHeadersDict(lines) ==
    LET lowered == [i \in DOMAIN lines |-> Lower(lines[i][1])]
    IN [k \in {lowered[i] : i \in DOMAIN lines} |->
           Join(ValuesUnder(lines, lowered, k), ", ")]

\* A response body: raw bytes, or a JSON object with the keys it carries.
\* Messages (str(e)) are sequences of phrases.
NoContent ==
    [raw |-> "", keys |-> {}, error |-> <<>>, details |-> <<>>,
     authenticated |-> "none"]
RawBody(content) == [NoContent EXCEPT !.raw = content]
ErrorBody(error) == [NoContent EXCEPT !.keys = {"error"}, !.error = error]
DetailedErrorBody(error, details) ==
    [NoContent EXCEPT !.keys = {"error", "technical_details"},
                      !.error = error, !.details = details]

\* What requests.request / http_client.request gives back: nothing (no call),
\* a response, or an exception of the transport whose str() is message.
NoBroker ==
    [kind |-> "none", status |-> 0, headers |-> <<>>, content |-> "",
     refused |-> FALSE, message |-> <<>>]
BrokerHttp(status, headers, content) ==
    [NoBroker EXCEPT !.kind = "http", !.status = status, !.headers = headers,
                     !.content = content]
BrokerFault(refused, message) ==
    [NoBroker EXCEPT !.kind = "fault", !.refused = refused, !.message = message]

\* The request sent to the broker.
NoOutbound == [sent |-> FALSE, method |-> "", headers |-> NoHeaders, data |-> ""]
Outbound(method, headers, data) ==
    [sent |-> TRUE, method |-> method, headers |-> headers, data |-> data]

\* The part of a response that is not status, cookies or session.
NoOut ==
    [headers |-> NoHeaders, body |-> NoContent, broker_calls |-> 0,
     outbound |-> NoOutbound]
WithOut(r, o) == [out |-> o] @@ r

-----------------------------------------------------------------------------
(* Program constants                                                       *)

LogoutMarkerMaxAge == 60
DefaultExp == 3600
DefaultIat == 0
DefaultExpiresIn == 3600

-----------------------------------------------------------------------------
(* Helpers shared by the handlers                                          *)

StateAccepted_NoCompare(state, stored) == Truthy(state)

\* callback, line 98: `if not state or state != stored_state` rejects.
StateAccepted(state, stored) == Truthy(state) /\ state = stored

HasRefreshCookie_Always(cookies) == TRUE

\* refresh_token, line 275: `if not refresh_token` rejects.
HasRefreshCookie(cookies) == Truthy(cookies.refresh_token)

AccessMaxAge(expires_in) == expires_in

RefreshMaxAge_Same(expires_in) == expires_in

\* max_age=tokens['expires_in'] * 2
RefreshMaxAge(expires_in) == expires_in * 2

\* The try block after the cookies are set in callback and refresh_token:
\* session['user'] is assigned last, and any exception before it is swallowed.
SessionAfterTokens(sess, token) ==
    LET dec == DecodeClaims(token) IN
    IF dec.ok
        THEN [sess EXCEPT !.user =
                 UserRecord(dec.claims, ResolveTenant(dec.claims, DefaultTenant))]
        ELSE sess

\* The token response can be used: response.json() parses and the keys that
\* are subscripted (access_token, expires_in, refresh_token) are present.
PairComplete(idp) ==
    /\ idp.json
    /\ idp.pair.access.some
    /\ idp.pair.expires.some
    /\ idp.pair.refresh.some

ClearedSession_KeepState(sess) == [EmptySession EXCEPT !.oauth_state = sess.oauth_state]

\* session.clear()
ClearedSession(sess) == EmptySession

-----------------------------------------------------------------------------
(* The handlers, as functions from the request (session, cookies,          *)
(* parameters, the identity provider's answer) to the response.            *)

\* GET /api/auth/login: a fresh uuid4 is stored in the session.
login(sess, uuid) == Reply(302, 0, [sess EXCEPT !.oauth_state = Some(uuid)])

\* GET /api/auth/callback
callback(sess, cookies, state, code, idp) ==
    IF ~StateAccepted(state, sess.oauth_state) THEN Reply(400, 0, sess)
    ELSE IF ~Truthy(code) THEN Reply(400, 0, sess)
    ELSE IF idp.kind = "raise" THEN Reply(500, 1, sess)
    ELSE IF idp.status # 200 THEN Reply(400, 1, sess)
    ELSE IF ~PairComplete(idp) THEN Reply(500, 1, sess)
    ELSE [status |-> 302, idp_calls |-> 1,
          set_access |-> SetCookie(idp.pair.access.v, AccessMaxAge(idp.pair.expires.v)),
          set_refresh |-> SetCookie(idp.pair.refresh.v, RefreshMaxAge(idp.pair.expires.v)),
          set_logged_out |-> DeleteStr,
          session |-> SessionAfterTokens(sess, idp.pair.access.v)]

\* GET /api/auth/logout: the provider is called when there is a refresh cookie,
\* and whatever it answers or raises is ignored.
logout(sess, cookies, idp) ==
    [status |-> 302,
     idp_calls |-> IF Truthy(cookies.refresh_token) THEN 1 ELSE 0,
     set_access |-> DeleteTok,
     set_refresh |-> DeleteStr,
     set_logged_out |-> SetCookie("true", LogoutMarkerMaxAge),
     session |-> ClearedSession(sess)]

refresh_token_Retry(sess, cookies, idp) ==
    IF ~HasRefreshCookie(cookies) THEN Reply(401, 0, sess)
    ELSE IF idp.kind = "raise" THEN Reply(500, 2, sess)
    ELSE IF idp.status # 200 THEN Reply(401, 2, sess)
    ELSE IF ~PairComplete(idp) THEN Reply(500, 1, sess)
    ELSE [status |-> 200, idp_calls |-> 1,
          set_access |-> SetCookie(idp.pair.access.v, AccessMaxAge(idp.pair.expires.v)),
          set_refresh |-> SetCookie(idp.pair.refresh.v, RefreshMaxAge(idp.pair.expires.v)),
          set_logged_out |-> KeepStr,
          session |-> SessionAfterTokens(sess, idp.pair.access.v)]

\* GET /api/auth/refresh
refresh_token(sess, cookies, idp) ==
    IF ~HasRefreshCookie(cookies) THEN Reply(401, 0, sess)
    ELSE IF idp.kind = "raise" THEN Reply(500, 1, sess)
    ELSE IF idp.status # 200 THEN Reply(401, 1, sess)
    ELSE IF ~PairComplete(idp) THEN Reply(500, 1, sess)
    ELSE [status |-> 200, idp_calls |-> 1,
          set_access |-> SetCookie(idp.pair.access.v, AccessMaxAge(idp.pair.expires.v)),
          set_refresh |-> SetCookie(idp.pair.refresh.v, RefreshMaxAge(idp.pair.expires.v)),
          set_logged_out |-> KeepStr,
          session |-> SessionAfterTokens(sess, idp.pair.access.v)]

HasAccessCookie_Always(cookies) == TRUE

\* `if not access_token` (lines 381, 695, 765): the cookie is absent or empty.
HasAccessCookie(cookies) ==
    cookies.access_token.some /\ cookies.access_token.v # NoToken

\* jsonify({'authenticated': ..., ...}) with the keys the body carries.
AuthOut(flag, keys) ==
    [NoOut EXCEPT !.body = [NoContent EXCEPT !.keys = keys, !.authenticated = flag]]

\* GET /api/auth/user: the resolved tenant is written to session['tenant'].
get_user_info(sess, cookies) ==
    IF ~HasAccessCookie(cookies)
        THEN WithOut(Reply(200, 0, sess), AuthOut("false", {"authenticated"}))
    ELSE LET dec == DecodeClaims(cookies.access_token.v) IN
         IF ~dec.ok
             THEN WithOut(Reply(200, 0, sess),
                          AuthOut("false", {"authenticated", "error"}))
         ELSE WithOut(Reply(200, 0,
                    [sess EXCEPT !.tenant =
                        ResolveTenant(dec.claims,
                                      IF sess.tenant.t = "absent"
                                          THEN DefaultTenant ELSE sess.tenant)]),
                      AuthOut("true", {"authenticated", "user"}))

\* POST /api/auth/tenant; body.kind is "badjson" (request.json raises
\* BadRequest), "value" (the body is JSON but no object: data.get raises
\* AttributeError, which nothing catches), or "json" with
\* body.tenant = data.get('tenant').
set_tenant(sess, body) ==
    IF body.kind = "value" THEN Reply(500, 0, sess)
    ELSE IF body.kind # "json" THEN Reply(400, 0, sess)
    ELSE IF ~JTruthy(body.tenant) THEN Reply(400, 0, sess)
    ELSE Reply(200, 0, [sess EXCEPT !.tenant = body.tenant])

\* exp - iat with the defaults of dict.get; a TypeError unless both are
\* numbers (a JSON boolean is the number 0 or 1).
VerifyMaxAge(claims) ==
    LET exp == Get(claims, "exp", JNum(DefaultExp))
        iat == Get(claims, "iat", JNum(DefaultIat))
    IN IF exp.t \in {"num", "bool"} /\ iat.t \in {"num", "bool"}
           THEN [some |-> TRUE, v |-> exp.n - iat.n]
           ELSE NoneInt

verify_token_Reissue(sess, body) ==
    IF body.kind = "value"
        THEN Reply(NonObjectBodyStatus(body.val, {"access_token"}), 0, sess)
    ELSE IF body.kind # "token" THEN Reply(400, 0, sess)
    ELSE IF ~HasThreeParts(body.tok) \/ ~DecodeClaims(body.tok).ok
        THEN Reply(400, 0, sess)
    ELSE [Reply(200, 0, sess) EXCEPT
             !.set_access = SetCookie(Jwt(NoClaims), DefaultExp),
             !.set_refresh = SetCookie("r0", RefreshMaxAge(DefaultExp))]

\* POST /api/auth/verify-token; body.kind is "badjson" (request.json raises),
\* "value" (JSON, but no object: body.val), "nokey" (an object without
\* access_token) or "token" (an object with the token body.tok).
verify_token(sess, body) ==
    IF body.kind = "badjson" THEN Reply(500, 0, sess)
    ELSE IF body.kind = "value"
        THEN Reply(NonObjectBodyStatus(body.val, {"access_token"}), 0, sess)
    ELSE IF body.kind # "token" THEN Reply(400, 0, sess)
    ELSE IF ~HasThreeParts(body.tok) THEN Reply(400, 0, sess)
    ELSE LET dec == DecodeClaims(body.tok) IN
         IF ~dec.ok THEN Reply(400, 0, sess)
         ELSE LET written == [sess EXCEPT !.user =
                     UserRecord(dec.claims, ResolveTenant(dec.claims, DefaultTenant))]
                  age == VerifyMaxAge(dec.claims)
              IN \* session['user'] is assigned before max_age is computed
                 IF ~age.some THEN Reply(400, 0, written)
                 ELSE [Reply(200, 0, written) EXCEPT
                          !.set_access = SetCookie(body.tok, age.v)]

\* POST /api/auth/direct-token; body.kind is "badjson", "value" (JSON, but
\* no object), "nocreds" or "creds".
get_direct_token(sess, body, idp) ==
    IF body.kind = "badjson" THEN Reply(500, 0, sess)
    ELSE IF body.kind = "value"
        THEN Reply(NonObjectBodyStatus(body.val, {"username", "password"}), 0, sess)
    ELSE IF body.kind # "creds" THEN Reply(400, 0, sess)
    ELSE IF idp.kind = "raise" THEN Reply(500, 1, sess)
    ELSE IF idp.status # 200
        \* the 401 body is built from response.json(), which raises on a
        \* body that is not a JSON object
        THEN IF idp.json THEN Reply(401, 1, sess) ELSE Reply(500, 1, sess)
    ELSE IF ~idp.json \/ ~idp.pair.access.some THEN Reply(500, 1, sess)
    ELSE IF ~HasThreeParts(idp.pair.access.v) THEN Reply(400, 1, sess)
    ELSE LET dec == DecodeClaims(idp.pair.access.v)
             expires == IF idp.pair.expires.some
                            THEN idp.pair.expires.v ELSE DefaultExpiresIn
         IN
         IF ~dec.ok THEN Reply(500, 1, sess)
         ELSE [status |-> 200, idp_calls |-> 1,
               set_access |-> SetCookie(idp.pair.access.v, AccessMaxAge(expires)),
               set_refresh |-> IF idp.pair.refresh.some
                                   THEN SetCookie(idp.pair.refresh.v, RefreshMaxAge(expires))
                                   ELSE KeepStr,
               set_logged_out |-> KeepStr,
               session |-> [sess EXCEPT !.user =
                   UserRecord(dec.claims, ResolveTenant(dec.claims, DefaultTenant))]]

\* json.loads(base64.b64decode(segment)) returns a value.
DecodesAsJson(seg) == seg.kind \in {"object", "value"}

\* `if 'exp' in decoded_payload: datetime.fromtimestamp(decoded_payload['exp'])`
\* and the same for iat (lines 719-728).  `in` raises TypeError on a number,
\* a boolean or null; on a list it looks for the element and on a string for
\* the substring, and the subscript that follows raises; fromtimestamp
\* raises on a claim that is no number.  (It also raises beyond the year
\* 9999, which no integer of the model reaches.)
TimestampsFormat(seg) ==
    IF seg.kind = "object"
        THEN \A k \in {"exp", "iat"} \cap DOMAIN seg.claims :
                 seg.claims[k].t \in {"num", "bool"}
    ELSE /\ seg.val.t \in {"str", "list"}
         /\ \A k \in {"exp", "iat"} : ~PyIn(k, seg.val)

\* GET /api/auth/token-details
get_token_details(sess, cookies) ==
    IF ~HasAccessCookie(cookies)
        THEN WithOut(Reply(200, 0, sess), AuthOut("false", {"authenticated", "error"}))
    ELSE LET token == cookies.access_token.v IN
         IF ~HasThreeParts(token)
             THEN WithOut(Reply(400, 0, sess),
                          [NoOut EXCEPT !.body = ErrorBody(<<"Invalid token format">>)])
         ELSE IF \/ ~DecodesAsJson(token[1])
                 \/ ~DecodesAsJson(token[2])
                 \/ ~TimestampsFormat(token[2])
             THEN WithOut(Reply(200, 0, sess),
                          AuthOut("false", {"authenticated", "error"}))
         ELSE WithOut(Reply(200, 0, sess),
                      AuthOut("true", {"authenticated", "token_preview", "header",
                                       "payload", "signature"}))

-----------------------------------------------------------------------------
(* The NGSI-LD proxy (ngsi_ld_proxy) and the minimal proxy (proxy_request) *)

IsPreflight_Never(method) == FALSE

\* line 756: `if request.method == 'OPTIONS'`
IsPreflight(method) == method = "OPTIONS"

AllowHeadersValue == "Content-Type, Authorization, NGSILD-Tenant"
AllowMethodsValue == "GET, POST, PUT, DELETE, PATCH, OPTIONS"

\* The headers added to every forwarded response (lines 827-828).
CorsHeaders ==
    ("Access-Control-Allow-Origin" :> "*")
        @@ ("Access-Control-Allow-Headers" :> AllowHeadersValue)

\* The headers of the preflight answer (lines 758-760).
PreflightHeaders ==
    CorsHeaders @@ ("Access-Control-Allow-Methods" :> AllowMethodsValue)

\* request.headers.get(name) and `name in request.headers`, h being the
\* request.headers of the request: header names are matched without regard
\* to case.
HeaderGet(h, name) ==
    LET key == Lower(name) IN
    IF key \in DOMAIN h THEN Some(h[key]) ELSE None_

ForwardsTenant_NonEmpty(tenant) == Truthy(tenant)

\* line 786: `tenant_id and tenant_id.lower() != 'default' and
\* tenant_id != 'Synchro'`
ForwardsTenant(tenant) ==
    Truthy(tenant) /\ Lower(tenant.v) # "default" /\ tenant.v # "Synchro"

OutboundHeaders_All(lines) == RequestHeaders(lines)

\* The headers of the forwarded request (lines 779-794).
OutboundHeaders(lines) ==
    LET h == RequestHeaders(lines)
        tenant == HeaderGet(h, "NGSILD-Tenant")
        authorization == HeaderGet(h, "Authorization")
        content_type == HeaderGet(h, "Content-Type")
        accept == HeaderGet(h, "Accept")
    IN
    (IF authorization.some THEN "Authorization" :> authorization.v ELSE NoHeaders)
    @@ (IF ForwardsTenant(tenant) THEN "NGSILD-Tenant" :> tenant.v ELSE NoHeaders)
    @@ ("Content-Type" :> IF content_type.some THEN content_type.v
                          ELSE "application/json")
    @@ ("Accept" :> IF accept.some THEN accept.v ELSE "application/json")

\* line 823: the allowlist, compared in lower case.
CopiedHeader(name) ==
    Lower(name) \in {"content-type", "content-length", "cache-control",
                      "etag", "last-modified"}

\* The headers of the forwarded response: the allowlisted ones, then the
\* CORS headers assigned over them (lines 822-828).
PassedHeaders(lines) ==
    LET h == ResponseHeaders(lines) IN
    CorsHeaders @@ [n \in {x \in DOMAIN h : CopiedHeader(x)} |-> h[n]]

\* line 836: `"Connection refused" in error_message`
MentionsRefused(message) ==
    \E i \in DOMAIN message : message[i] = "Connection refused"

ngsi_ld_proxy_SessionTenant(sess, cookies, inb, broker) ==
    IF IsPreflight(inb.method)
        THEN WithOut(Reply(200, 0, sess), [NoOut EXCEPT !.headers = PreflightHeaders])
    ELSE IF ~HasAccessCookie(cookies)
        THEN WithOut(Reply(401, 0, sess),
                 [NoOut EXCEPT !.body =
                     ErrorBody(<<"Unauthorized access. Please log in first.">>)])
    ELSE LET chosen == IF sess.tenant.t = "str" /\ sess.tenant.s # ""
                           THEN "NGSILD-Tenant" :> sess.tenant.s ELSE NoHeaders
             sent == Outbound(inb.method,
                              chosen @@ OutboundHeaders(inb.headers), inb.data)
             called == [NoOut EXCEPT !.broker_calls = 1, !.outbound = sent]
         IN
         IF broker.kind = "http"
             THEN WithOut(Reply(broker.status, 0, sess),
                      [called EXCEPT !.headers = PassedHeaders(broker.headers),
                                     !.body = RawBody(broker.content)])
         ELSE WithOut(Reply(IF MentionsRefused(broker.message) THEN 503 ELSE 500,
                            0, sess),
                  [called EXCEPT !.body =
                      DetailedErrorBody(<<"broker">>, broker.message)])

\* ANY /api/ngsi-ld/v1/<subpath>; inb is the inbound request, broker what
\* requests.request returns or raises (a requests.RequestException).
ngsi_ld_proxy(sess, cookies, inb, broker) ==
    IF IsPreflight(inb.method)
        THEN WithOut(Reply(200, 0, sess), [NoOut EXCEPT !.headers = PreflightHeaders])
    ELSE IF ~HasAccessCookie(cookies)
        THEN WithOut(Reply(401, 0, sess),
                 [NoOut EXCEPT !.body =
                     ErrorBody(<<"Unauthorized access. Please log in first.">>)])
    ELSE LET sent == Outbound(inb.method, OutboundHeaders(inb.headers), inb.data)
             called == [NoOut EXCEPT !.broker_calls = 1, !.outbound = sent]
         IN
         IF broker.kind = "http"
             THEN WithOut(Reply(broker.status, 0, sess),
                      [called EXCEPT !.headers = PassedHeaders(broker.headers),
                                     !.body = RawBody(broker.content)])
         ELSE IF MentionsRefused(broker.message)
             THEN WithOut(Reply(503, 0, sess),
                      [called EXCEPT !.body = DetailedErrorBody(
                          <<"Unable to connect to the NGSI-LD broker. The service may be unavailable.">>,
                          broker.message)])
         ELSE WithOut(Reply(500, 0, sess),
                  [called EXCEPT !.body = DetailedErrorBody(
                      <<"Error communicating with the NGSI-LD broker">>,
                      broker.message)])

\* src/backend/app.py, proxy_request: no cookie is read, every inbound
\* header but host is forwarded, the body only for POST, PUT and PATCH; the
\* answer carries every header of the broker, and any exception is answered
\* 500 with str(e) as the error.
proxy_request(sess, inb, broker) ==
    LET lowered == RequestHeadersDict(inb.headers)
        sent == Outbound(inb.method,
                         [n \in DOMAIN lowered \ {"host"} |-> lowered[n]],
                         IF inb.method \in {"POST", "PUT", "PATCH"}
                             THEN inb.data ELSE "")
        called == [NoOut EXCEPT !.broker_calls = 1, !.outbound = sent]
    IN
    IF broker.kind = "http"
        THEN WithOut(Reply(broker.status, 0, sess),
                 [called EXCEPT !.headers = ResponseHeadersDict(broker.headers),
                                !.body = RawBody(broker.content)])
    ELSE WithOut(Reply(500, 0, sess),
             [called EXCEPT !.headers = ("content-type" :> "application/json"),
                            !.body = ErrorBody(broker.message)])

-----------------------------------------------------------------------------
(* Inputs: what a browser can send and what the provider can answer        *)

\* str(uuid.uuid4()): the n-th login draws a value no earlier login drew.
Uuid(n) == "s" \o ToString(n)

StateParams == {None_, Some("")} \cup {Some(Uuid(n)) : n \in 1..MaxLogins}
Codes == {None_, Some("c1")}

ClaimsAlice ==
    [k \in {"preferred_username", "TenantId", "exp", "iat"} |->
        CASE k = "preferred_username" -> JStr("alice")
          [] k = "TenantId" -> JStr("T1")
          [] k = "exp" -> JNum(1300)
          [] k = "iat" -> JNum(1000)]
ClaimsBob ==
    [k \in {"preferred_username", "tenant_id"} |->
        IF k = "preferred_username" THEN JStr("bob") ELSE JStr("t2")]
ClaimsBadExp ==
    [k \in {"preferred_username", "exp"} |->
        IF k = "preferred_username" THEN JStr("carol") ELSE JStr("soon")]

TokAlice == Jwt(ClaimsAlice)
TokBob == Jwt(ClaimsBob)
TokBadExp == Jwt(ClaimsBadExp)
TokOpaque == <<NotJsonSeg>>
TokBadPayload == <<HeaderSeg, NotJsonSeg, SigSeg>>

FlowTokens == {TokAlice, TokBob, TokBadExp, TokOpaque, TokBadPayload}

\* Claim maps over the tenant fields: none, each one, each two and all five
\* of them present as strings, and TenantId in its other JSON shapes alone
\* and next to tenant_id.
TenantKeys == {"TenantId", "tenant_id", "tenantId", "Tenant", "tenant"}
TenantIdShapes == {JList(<<"A1", "A2">>), JList(<<>>), JNum(7)}
TenantValue(k) ==
    CASE k = "TenantId" -> JStr("T1")
      [] k = "tenant_id" -> JStr("t2")
      [] k = "tenantId" -> JStr("t3")
      [] k = "Tenant" -> JStr("t4")
      [] k = "tenant" -> JStr("t5")
TenantClaimMaps ==
    {[k \in S |-> TenantValue(k)] :
        S \in {S \in SUBSET TenantKeys : Cardinality(S) <= 2 \/ S = TenantKeys}}
    \cup {[k \in S \cup {"TenantId"} |-> IF k = "TenantId" THEN v ELSE TenantValue(k)] :
            S \in {{}, {"tenant_id"}}, v \in TenantIdShapes}
TenantTokens == {Jwt(c) : c \in TenantClaimMaps}

Pair(t, r, e) ==
    [access |-> [some |-> TRUE, v |-> t], refresh |-> Some(r),
     expires |-> [some |-> TRUE, v |-> e]]
\* Every token of T in a complete pair, and two pairs with the other refresh
\* token and lifetime.
FullPairs(T) ==
    {Pair(t, "r1", 300) : t \in T} \cup {Pair(TokAlice, "r2", 60), Pair(TokBob, "r2", 60)}
PartialPairs ==
    {[Pair(TokAlice, "r1", 300) EXCEPT !.access = NoneTok],
     [Pair(TokAlice, "r1", 300) EXCEPT !.refresh = None_],
     [Pair(TokAlice, "r1", 300) EXCEPT !.expires = NoneInt],
     [Pair(TokAlice, "r1", 300) EXCEPT !.refresh = None_, !.expires = NoneInt]}

\* Answers of the token endpoint; P is the set of token pairs it can issue.
TokenResponses(P) ==
    {IdpRaise, IdpHttp(200, FALSE, NoPair)}
    \cup {IdpHttp(st, j, NoPair) : st \in {401, 502}, j \in BOOLEAN}
    \cup {IdpHttp(200, TRUE, p) : p \in P}

LogoutResponses == {IdpRaise, IdpHttp(204, FALSE, NoPair), IdpHttp(400, TRUE, NoPair)}

NoBody == [kind |-> "none", tok |-> NoToken, tenant |-> JAbsent, val |-> JAbsent]
Body(kind) == [NoBody EXCEPT !.kind = kind]
\* A request body that is JSON but no object.
ValueBody(j) == [Body("value") EXCEPT !.val = j]
VerifyBodies(T) ==
    {Body("badjson"), Body("nokey")}
    \cup {[Body("token") EXCEPT !.tok = t] : t \in T}
DirectBodies ==
    {Body("badjson"), Body("nocreds"), Body("creds")}
TenantBodies ==
    {Body("badjson"), ValueBody(JNull), ValueBody(JList(<<"tenant">>))}
    \cup {[Body("json") EXCEPT !.tenant = j] : j \in {JAbsent, JStr(""), JStr("acme")}}

\* The shapes of a JSON body that is no object.
NonObjectBodies ==
    {ValueBody(j) : j \in {JNull, JBool(TRUE), JBool(FALSE), JNum(0), JNum(5),
                           JStr(""), JStr("x"), JStr("my access_token"),
                           JList(<<>>), JList(<<"x">>), JList(<<"access_token">>),
                           JList(<<"username", "password">>)}}

\* Tokens whose shape the decoders tell apart: the number of segments, a
\* payload or header that does not decode, and exp / iat present or not.
ClaimsDave ==
    [k \in {"preferred_username", "tenant"} |->
        IF k = "preferred_username" THEN JStr("dave") ELSE JStr("t5")]

TokOnlyExp ==
    Jwt([k \in {"preferred_username", "exp"} |->
            IF k = "preferred_username" THEN JStr("erin") ELSE JNum(1300)])
TokOnlyIat ==
    Jwt([k \in {"preferred_username", "iat"} |->
            IF k = "preferred_username" THEN JStr("frank") ELSE JNum(5000)])

\* Two and four segments; a payload that is no base64, a payload that is a
\* JSON array, string or null, a header that is no JSON and one that is a
\* JSON number.
CodecTokens ==
    {TokAlice, TokBob, TokOnlyExp, TokOnlyIat, TokBadExp, TokOpaque, TokBadPayload,
     <<HeaderSeg, Obj(ClaimsDave)>>,
     <<HeaderSeg, Obj(ClaimsDave), SigSeg, SigSeg>>,
     <<HeaderSeg, BadB64Seg, SigSeg>>,
     <<HeaderSeg, ValueSeg(JList(<<>>)), SigSeg>>,
     <<HeaderSeg, ValueSeg(JList(<<"exp">>)), SigSeg>>,
     <<HeaderSeg, ValueSeg(JStr("abc")), SigSeg>>,
     <<HeaderSeg, ValueSeg(JStr("expiry")), SigSeg>>,
     <<HeaderSeg, ValueSeg(JNull), SigSeg>>,
     <<NotJsonSeg, Obj(ClaimsDave), SigSeg>>,
     <<ValueSeg(JNum(5)), Obj(ClaimsDave), SigSeg>>}

\* Inbound requests to the proxies.
Inbound(method, headers, data) ==
    [method |-> method, headers |-> headers, data |-> data]
NoInbound == Inbound("", <<>>, "")

ProxyMethods == {"GET", "POST", "PUT", "DELETE", "PATCH", "OPTIONS"}
TenantHeaderValues ==
    {"", "acme", "default", "Default", "DEFAULT", "DeFault", "dEFAULT",
     "Synchro", "synchro"}
BrowserHeaders ==
    <<<<"Host", "explorer">>, <<"Cookie", "session">>,
      <<"Accept", "application/ld+json">>,
      <<"Content-Type", "application/ld+json">>,
      <<"Authorization", "Bearer a">>, <<"NGSILD-Tenant", "acme">>>>

\* Next to the browser's headers: the same names as an HTTP/2 client
\* writes them, names that come twice and in two spellings, and a name
\* with an underscore.
InboundRequests ==
    {Inbound(m, <<>>, "") : m \in ProxyMethods}
    \cup {Inbound("GET", <<<<"NGSILD-Tenant", t>>>>, "") : t \in TenantHeaderValues}
    \cup {Inbound(m, BrowserHeaders, "entity") : m \in {"GET", "POST", "OPTIONS"}}
    \cup {Inbound("GET", h, "") : h \in
              {<<<<"ngsild-tenant", "acme">>, <<"authorization", "Bearer b">>,
                 <<"accept", "application/json">>>>,
               <<<<"NGSILD-Tenant", "default">>, <<"Content-Type", "text/plain">>,
                 <<"ngsild-tenant", "other">>,
                 <<"content-type", "application/json">>,
                 <<"Authorization", "Bearer a">>,
                 <<"AUTHORIZATION", "Bearer b">>>>,
               <<<<"NGSILD_Tenant", "acme">>, <<"Accept", "text/plain">>>>}}

\* What the broker can answer, and how the call to it can fail.
EntityHeaders ==
    <<<<"Content-Type", "application/ld+json">>, <<"ETag", "v1">>,
      <<"Link", "context">>, <<"Set-Cookie", "sid=1">>>>
BrokerOutcomes ==
    {BrokerHttp(200, EntityHeaders, "entities"),
     BrokerHttp(404, <<<<"content-length", "9">>, <<"Cache-Control", "no-cache">>,
                       <<"Last-Modified", "yesterday">>,
                       <<"CONTENT-TYPE", "text/plain">>,
                       <<"X-Powered-By", "orion">>>>, "not found"),
     \* a broker that writes one name on two lines
     BrokerHttp(200, <<<<"ETag", "a">>, <<"Link", "context">>, <<"etag", "b">>,
                       <<"Link", "next">>>>, "entities"),
     BrokerHttp(500, <<>>, ""),
     BrokerFault(TRUE, <<"Max retries exceeded", "Connection refused">>),
     BrokerFault(TRUE, <<"Max retries exceeded", "WinError 10061">>),
     BrokerFault(FALSE, <<"Read timed out">>),
     BrokerFault(FALSE, <<"Max retries exceeded", "Name or service not known">>)}

\* One inbound request with the broker outcome it meets.  What goes out to
\* the broker depends on the inbound request alone and what comes back on
\* the outcome alone, so every inbound request meets one outcome and two
\* inbound requests meet every outcome.
ProxyExchanges ==
    {<<i, BrokerHttp(200, EntityHeaders, "entities")>> : i \in InboundRequests}
    \cup {<<i, b>> : i \in {Inbound("GET", <<>>, ""),
                            Inbound("POST", BrowserHeaders, "entity")},
                     b \in BrokerOutcomes}

-----------------------------------------------------------------------------
(* The state machine                                                       *)

\* peers: what the requests did that were in flight together with this one
\* and whose response arrived first ("login", "logout", "tenant", "grant").
NoReq ==
    [op |-> "none", state |-> None_, code |-> None_, idp |-> NoIdp, body |-> NoBody,
     inb |-> NoInbound, broker |-> NoBroker, peers |-> {}]
Headers(r) ==
    [status |-> r.status, idp_calls |-> r.idp_calls, set_access |-> r.set_access,
     set_refresh |-> r.set_refresh, set_logged_out |-> r.set_logged_out]

Init ==
    /\ session = EmptySession
    /\ jar = EmptyJar
    /\ req = NoReq
    /\ resp = Headers(Reply(0, 0, EmptySession))
    /\ out = NoOut
    /\ logins = 0
    /\ state_used = FALSE
    /\ inflight = {}
    /\ after_logout = FALSE

\* A callback, verify or direct grant that succeeded.
Granted(q, r) ==
    \/ q.op = "callback" /\ r.status = 302
    \/ q.op \in {"verify", "direct"} /\ r.status = 200

\* The browser applies the response r to the request q: the Set-Cookie
\* directives, and the session cookie when the response carries one (saved).
Arrive(q, r, saved) ==
    /\ req' = q
    /\ resp' = Headers(r)
    /\ out' = IF "out" \in DOMAIN r THEN r.out ELSE NoOut
    /\ session' = IF saved THEN r.session ELSE session
    /\ jar' = ApplyCookies(jar, r)
    /\ after_logout' = CASE q.op = "logout" -> TRUE
                          [] Granted(q, r) -> FALSE
                          [] OTHER -> after_logout

\* What a completed request did, as the requests still in flight see it.
PeerTag(q, r) ==
    CASE q.op = "login" -> {"login"}
      [] q.op = "logout" -> {"logout"}
      [] q.op = "tenant" /\ r.status = 200 -> {"tenant"}
      [] q.op \in {"refresh", "verify", "direct"} /\ r.status = 200 -> {"grant"}
      [] q.op = "callback" /\ r.status = 302 -> {"grant"}
      [] OTHER -> {}

\* The requests still in flight have overlapped with the completed one.
Overlapped(pending, q, r) ==
    {[e EXCEPT !.q.peers = @ \cup PeerTag(q, r)] : e \in pending}

\* A request answered before the browser does anything else: r was computed
\* from the session the browser holds, so saving it or not is the same.
Respond(q, r) ==
    /\ Arrive(q, r, TRUE)
    /\ inflight' = Overlapped(inflight, q, r)

\* The provider is consulted exactly when the handler calls it.
Consulted(r, idp) == (r.idp_calls > 0) = (idp.kind # "none")

Login ==
    /\ logins < MaxLogins
    /\ logins' = logins + 1
    /\ state_used' = FALSE
    /\ Respond([NoReq EXCEPT !.op = "login"], login(session, Uuid(logins + 1)))

Callback(R) ==
    \E state \in StateParams, code \in Codes, idp \in R \cup {NoIdp} :
        LET r == callback(session, jar, state, code, idp) IN
        /\ Consulted(r, idp)
        /\ Respond([NoReq EXCEPT !.op = "callback", !.state = state,
                                 !.code = code, !.idp = idp], r)
        /\ state_used' = (state_used \/ (Truthy(state) /\ session.oauth_state.some))
        /\ UNCHANGED logins

Logout ==
    \E idp \in LogoutResponses \cup {NoIdp} :
        LET r == logout(session, jar, idp) IN
        /\ Consulted(r, idp)
        /\ Respond([NoReq EXCEPT !.op = "logout", !.idp = idp], r)
        /\ state_used' = FALSE
        /\ UNCHANGED logins

Refresh(R) ==
    \E idp \in R \cup {NoIdp} :
        LET r == refresh_token(session, jar, idp) IN
        /\ Consulted(r, idp)
        /\ Respond([NoReq EXCEPT !.op = "refresh", !.idp = idp], r)
        /\ UNCHANGED <<logins, state_used>>

UserInfo ==
    /\ Respond([NoReq EXCEPT !.op = "user"], get_user_info(session, jar))
    /\ UNCHANGED <<logins, state_used>>

SetTenant ==
    \E body \in TenantBodies :
        /\ Respond([NoReq EXCEPT !.op = "tenant", !.body = body], set_tenant(session, body))
        /\ UNCHANGED <<logins, state_used>>

\* B is the set of request bodies.
VerifyBody(B) ==
    \E body \in B :
        /\ Respond([NoReq EXCEPT !.op = "verify", !.body = body], verify_token(session, body))
        /\ UNCHANGED <<logins, state_used>>

VerifyToken(T) == VerifyBody(VerifyBodies(T))

DirectBody(B, R) ==
    \E body \in B, idp \in R \cup {NoIdp} :
        LET r == get_direct_token(session, body, idp) IN
        /\ Consulted(r, idp)
        /\ Respond([NoReq EXCEPT !.op = "direct", !.body = body, !.idp = idp], r)
        /\ UNCHANGED <<logins, state_used>>

DirectToken(R) == DirectBody(DirectBodies, R)

TokenDetails ==
    /\ Respond([NoReq EXCEPT !.op = "details"], get_token_details(session, jar))
    /\ UNCHANGED <<logins, state_used>>

\* The broker is contacted exactly when the handler calls it.
Contacted(r, broker) == (r.out.broker_calls > 0) = (broker.kind # "none")

\* X is a set of exchanges <<inbound request, broker outcome>>.
NgsiLdProxyOn(X) ==
    \E x \in X : \E broker \in {x[2], NoBroker} :
        LET r == ngsi_ld_proxy(session, jar, x[1], broker) IN
        /\ Contacted(r, broker)
        /\ Respond([NoReq EXCEPT !.op = "ngsi_ld_proxy", !.inb = x[1],
                                 !.broker = broker], r)
        /\ UNCHANGED <<logins, state_used>>

NgsiLdProxy == NgsiLdProxyOn(ProxyExchanges)

\* The minimal proxy routes GET, POST, PUT, DELETE and PATCH.
ProxyRequestOn(X) ==
    \E x \in {e \in X : e[1].method # "OPTIONS"} :
        /\ Respond([NoReq EXCEPT !.op = "proxy_request", !.inb = x[1],
                                 !.broker = x[2]],
                   proxy_request(session, x[1], x[2]))
        /\ UNCHANGED <<logins, state_used>>

ProxyRequest == ProxyRequestOn(ProxyExchanges)

FlowResponses == TokenResponses(FullPairs(FlowTokens) \cup PartialPairs)

Next ==
    \/ Login
    \/ Callback(FlowResponses)
    \/ Logout
    \/ Refresh(FlowResponses)
    \/ UserInfo
    \/ SetTenant
    \/ VerifyToken(FlowTokens)
    \/ DirectToken(FlowResponses)

Spec == Init /\ [][Next]_vars

\* The same handlers over the tenant claim maps, with the provider always
\* issuing a complete pair.
TenantResponses == {IdpHttp(200, TRUE, Pair(t, "r1", 300)) : t \in TenantTokens}

NextTenant ==
    \/ Login
    \/ Callback(TenantResponses)
    \/ Refresh(TenantResponses)
    \/ UserInfo
    \/ SetTenant
    \/ VerifyToken(TenantTokens)
    \/ DirectToken(TenantResponses)

SpecTenant == Init /\ [][NextTenant]_vars

\* The handlers that decode a token, over every token shape.
CodecResponses == {IdpHttp(200, TRUE, Pair(t, "r1", 300)) : t \in CodecTokens}

NextCodec ==
    \/ Login
    \/ Callback(CodecResponses)
    \/ Refresh(CodecResponses)
    \/ UserInfo
    \/ TokenDetails
    \/ SetTenant
    \/ VerifyToken(CodecTokens)
    \/ DirectToken(CodecResponses)

SpecCodec == Init /\ [][NextCodec]_vars

\* The data plane: the two proxies, with the token routes that fill and
\* empty the cookie jar.
ProxyTokens == {TokAlice, TokBob, TokOpaque}
ProxyResponses ==
    {IdpRaise, IdpHttp(401, TRUE, NoPair), IdpHttp(200, TRUE, Pair(TokBob, "r1", 300))}

NextProxy ==
    \/ VerifyBody(VerifyBodies(ProxyTokens) \cup NonObjectBodies)
    \/ DirectBody(DirectBodies \cup NonObjectBodies, ProxyResponses)
    \/ Refresh(ProxyResponses)
    \/ Logout
    \/ SetTenant
    \/ NgsiLdProxy
    \/ ProxyRequest

SpecProxy == Init /\ [][NextProxy]_vars

-----------------------------------------------------------------------------
(* Requests of one browser in flight together.  The server answers a       *)
(* request from the cookies it was sent with (the session cookie among     *)
(* them); the browser applies the responses in any order.                  *)

\* The handler assigned to the session (or cleared it), so the response
\* carries the session cookie, holding the whole session as the handler
\* left it.
SessionModified(q, r) ==
    CASE q.op \in {"login", "logout"} -> TRUE
      [] q.op = "callback" ->
            r.status = 302 /\ DecodeClaims(q.idp.pair.access.v).ok
      [] q.op = "refresh" ->
            r.status = 200 /\ DecodeClaims(q.idp.pair.access.v).ok
      [] q.op = "verify" ->
            /\ q.body.kind = "token"
            /\ HasThreeParts(q.body.tok)
            /\ DecodeClaims(q.body.tok).ok
      [] q.op \in {"tenant", "direct"} -> r.status = 200
      [] q.op = "user" -> r.out.body.authenticated = "true"
      [] OTHER -> FALSE

\* The server has answered q with r; the response is on its way.
Send(q, r) ==
    /\ Cardinality(inflight) < MaxInFlight
    /\ [q |-> q, r |-> r] \notin inflight
    /\ inflight' = inflight \cup {[q |-> q, r |-> r]}
    /\ UNCHANGED <<session, jar, req, resp, out, logins, after_logout>>

\* The state check of callback is made when the server handles the request.
SendCallback(S, R) ==
    \E state \in S, idp \in R \cup {NoIdp} :
        LET r == callback(session, jar, state, Some("c1"), idp) IN
        /\ Consulted(r, idp)
        /\ Send([NoReq EXCEPT !.op = "callback", !.state = state,
                              !.code = Some("c1"), !.idp = idp], r)
        /\ state_used' = (state_used \/ (Truthy(state) /\ session.oauth_state.some))

SendLogout ==
    \E idp \in {IdpHttp(204, FALSE, NoPair), NoIdp} :
        LET r == logout(session, jar, idp) IN
        /\ Consulted(r, idp)
        /\ Send([NoReq EXCEPT !.op = "logout", !.idp = idp], r)
        /\ UNCHANGED state_used

SendRefresh(R) ==
    \E idp \in R \cup {NoIdp} :
        LET r == refresh_token(session, jar, idp) IN
        /\ Consulted(r, idp)
        /\ Send([NoReq EXCEPT !.op = "refresh", !.idp = idp], r)
        /\ UNCHANGED state_used

SendTenant(B) ==
    \E body \in B :
        /\ Send([NoReq EXCEPT !.op = "tenant", !.body = body], set_tenant(session, body))
        /\ UNCHANGED state_used

SendVerify(T) ==
    \E tok \in T :
        LET body == [Body("token") EXCEPT !.tok = tok] IN
        /\ Send([NoReq EXCEPT !.op = "verify", !.body = body], verify_token(session, body))
        /\ UNCHANGED state_used

SendDirect(R) ==
    \E idp \in R :
        LET body == Body("creds")
            r == get_direct_token(session, body, idp)
        IN
        /\ Send([NoReq EXCEPT !.op = "direct", !.body = body, !.idp = idp], r)
        /\ UNCHANGED state_used

SendNgsiLdProxy(X) ==
    \E x \in X : \E broker \in {x[2], NoBroker} :
        LET r == ngsi_ld_proxy(session, jar, x[1], broker) IN
        /\ Contacted(r, broker)
        /\ Send([NoReq EXCEPT !.op = "ngsi_ld_proxy", !.inb = x[1],
                              !.broker = broker], r)
        /\ UNCHANGED state_used

\* The coroutine of the minimal proxy is suspended at `await
\* http_client.request(...)`: the broker call is pending.
SendProxyRequest(X) ==
    \E x \in {e \in X : e[1].method # "OPTIONS"} :
        /\ Send([NoReq EXCEPT !.op = "proxy_request", !.inb = x[1],
                              !.broker = x[2]],
                proxy_request(session, x[1], x[2]))
        /\ UNCHANGED state_used

\* A response arrives: the requests still in flight have overlapped with it.
Deliver ==
    \E p \in inflight :
        /\ Arrive(p.q, p.r, SessionModified(p.q, p.r))
        /\ inflight' = Overlapped(inflight \ {p}, p.q, p.r)
        /\ state_used' = (state_used /\ p.q.op # "logout")
        /\ UNCHANGED logins

ConcResponses ==
    {IdpHttp(401, TRUE, NoPair), IdpHttp(200, TRUE, Pair(TokBob, "r1", 300))}
ConcExchanges ==
    {Inbound("GET", <<>>, ""), Inbound("OPTIONS", <<>>, "")}
        \X {BrokerHttp(200, EntityHeaders, "entities")}

\* Requests answered at once, next to requests whose response is delayed.
NextConc ==
    \/ Login
    \/ DirectToken(ConcResponses)
    \/ Refresh(ConcResponses)
    \/ Logout
    \/ SetTenant
    \/ NgsiLdProxyOn(ConcExchanges)
    \/ SendCallback({Some(Uuid(n)) : n \in 1..MaxLogins}, ConcResponses)
    \/ SendLogout
    \/ SendRefresh(ConcResponses)
    \/ SendTenant({[Body("json") EXCEPT !.tenant = JStr("acme")]})
    \/ SendVerify({TokAlice})
    \/ SendDirect(ConcResponses)
    \/ SendNgsiLdProxy(ConcExchanges)
    \/ SendProxyRequest(ConcExchanges)
    \/ Deliver

SpecConc == Init /\ [][NextConc]_vars

-----------------------------------------------------------------------------
(* Properties                                                              *)

SetsAccess(r) == r.set_access.op = "set"
SetsRefresh(r) == r.set_refresh.op = "set"
SetsNoTokenCookie(r) == r.set_access.op = "none" /\ r.set_refresh.op = "none"

\* C1: an OAuth state token is accepted by at most one callback: once a
\* callback has compared its state parameter with the stored token, a later
\* callback presenting that token is answered 400 (until a login replaces it).
C1_StateSingleUse ==
    [][(/\ req'.op = "callback"
        /\ state_used
        /\ session.oauth_state.some
        /\ req'.state = session.oauth_state)
       => resp'.status = 400]_vars

\* C2: a callback whose state parameter is absent, empty or different from
\* the stored token is answered 400, calls the provider not at all, writes no
\* Session Record and sets no access-token or refresh-token cookie.
C2_InvalidStateRejected ==
    [][(/\ req'.op = "callback"
        /\ (~req'.state.some \/ req'.state.v = "" \/ req'.state # session.oauth_state))
       => (/\ resp'.status = 400
           /\ resp'.idp_calls = 0
           /\ session' = session
           /\ SetsNoTokenCookie(resp')
           /\ jar' = jar)]_vars

\* C2 witness: a callback presented a state different from the stored token
\* and was answered 400.
C2_Witness ==
    /\ req.op = "callback"
    /\ req.state.some /\ req.state.v # ""
    /\ session.oauth_state.some
    /\ req.state # session.oauth_state
    /\ req.code.some
    /\ resp.status = 400

\* C3: in callback, refresh and direct grant, a non-success answer of the
\* token exchange sets no token cookie and leaves the session as it was;
\* callback and direct grant answer 400 or 401, refresh answers 401.
C3_FailedExchangeLeavesState ==
    [][(/\ req'.op \in {"callback", "refresh", "direct"}
        /\ req'.idp.kind = "http"
        /\ req'.idp.status \notin 200..299)
       => (/\ SetsNoTokenCookie(resp')
           /\ session' = session
           /\ jar' = jar
           /\ IF req'.op = "refresh" THEN resp'.status = 401
                                      ELSE resp'.status \in {400, 401})]_vars

\* C4: a callback or refresh response that sets the access_token and
\* refresh_token cookies also writes the Session Record, with the username
\* and the resolved tenant of that access token.
C4_CookiesImplySessionRecord ==
    (/\ req.op \in {"callback", "refresh"}
     /\ SetsAccess(resp) /\ SetsRefresh(resp))
    => (/\ session.user.some
        /\ DecodeClaims(resp.set_access.v).ok
        /\ session.user.username =
              Get(DecodeClaims(resp.set_access.v).claims, "preferred_username",
                  JStr("unknown_user"))
        /\ session.user.tenant =
              ResolveTenant(DecodeClaims(resp.set_access.v).claims, DefaultTenant))

\* C5: when verify-token answers 400 or 500, the Session Record and the
\* access-token cookie are as they were before the request.
C5_VerifyErrorLeavesState ==
    [][(req'.op = "verify" /\ resp'.status \in {400, 500})
       => (/\ session' = session
           /\ jar'.access_token = jar.access_token
           /\ resp'.set_access.op = "none")]_vars

\* C6: a refresh without a refresh_token cookie is answered 401, makes no
\* call to the provider and leaves cookies and session unchanged.
C6_NoRefreshCookie ==
    [][(req'.op = "refresh" /\ ~jar.refresh_token.some)
       => (/\ resp'.status = 401
           /\ resp'.idp_calls = 0
           /\ SetsNoTokenCookie(resp')
           /\ resp'.set_logged_out.op = "none"
           /\ jar' = jar
           /\ session' = session)]_vars

\* C6 witness: a signed-in browser that holds an access cookie but no
\* refresh cookie asked for a refresh and got 401.
C6_Witness ==
    /\ req.op = "refresh"
    /\ ~jar.refresh_token.some
    /\ jar.access_token.some
    /\ session.user.some
    /\ resp.status = 401

\* C7: whenever callback, refresh or direct grant set token cookies from a
\* token pair, the access_token max-age is the pair's expires_in and the
\* refresh_token max-age is twice that.
C7_MaxAges ==
    (/\ req.op \in {"callback", "refresh", "direct"}
     /\ req.idp.pair.expires.some
     /\ (SetsAccess(resp) \/ SetsRefresh(resp)))
    => (/\ SetsAccess(resp)
        /\ resp.set_access.max_age = req.idp.pair.expires.v
        /\ SetsRefresh(resp) => resp.set_refresh.max_age = 2 * req.idp.pair.expires.v
        /\ req.op # "direct" => SetsRefresh(resp))

\* C7 witness: a refresh answered with expires_in = 60 set both cookies.
C7_Witness ==
    /\ req.op = "refresh"
    /\ req.idp.pair.expires = [some |-> TRUE, v |-> 60]
    /\ SetsAccess(resp) /\ SetsRefresh(resp)
    /\ resp.set_refresh.max_age = 120

\* C8: logout always answers with a redirect that clears the whole session,
\* expires both token cookies and sets the logged_out marker for 60 seconds,
\* whatever the provider does.
C8_LogoutAlwaysSucceeds ==
    req.op = "logout"
    => (/\ resp.status = 302
        /\ session.user = NoUser
        /\ session.tenant = JAbsent
        /\ session.oauth_state = None_
        /\ resp.set_access.op = "delete"
        /\ resp.set_refresh.op = "delete"
        /\ resp.set_logged_out = [op |-> "set", v |-> "true", max_age |-> 60]
        /\ ~jar.access_token.some
        /\ ~jar.refresh_token.some
        /\ jar.logged_out = Some("true"))

\* C8 witness: the provider's invalidation call raised during a logout.
C8_Witness ==
    /\ req.op = "logout"
    /\ req.idp.kind = "raise"
    /\ resp.status = 302

\* The precedence order of the tenant fields, as the specification states it.
TenantOrder == <<"TenantId", "tenant_id", "tenantId", "Tenant", "tenant">>

\* The value of the first field of `order` present in claims c (an array
\* stands for its element 0), or the fallback when none is present.
FirstPresent(c, order, fallback) ==
    LET present == {i \in 1..Len(order) : order[i] \in DOMAIN c} IN
    IF present = {} THEN fallback
    ELSE LET i == CHOOSE i \in present : \A j \in present : i <= j
             j == c[order[i]]
         IN IF j.t = "list" /\ j.l # <<>> THEN JStr(j.l[1]) ELSE j

\* Every present tenant field is a non-empty string, or TenantId a non-empty array.
WellFormedTenantClaims(c) ==
    \A k \in DOMAIN c \cap TenantKeys :
        \/ c[k].t = "str" /\ c[k].s # ""
        \/ k = "TenantId" /\ c[k].t = "list" /\ c[k].l # <<>>

EmptyTenantIdArray(c) ==
    "TenantId" \in DOMAIN c /\ c["TenantId"].t = "list" /\ c["TenantId"].l = <<>>

SessionTenantOrDefault(sess) == IF sess.tenant.t = "absent" THEN DefaultTenant ELSE sess.tenant

\* C9: with TenantId present as an empty array, resolution falls through to
\* tenant_id, tenantId, Tenant, tenant, the fallback and "Default".
C9_EmptyArrayFallsThrough ==
    [][/\ (/\ req'.op \in {"callback", "refresh", "verify", "direct"}
           /\ SetsAccess(resp')
           /\ DecodeClaims(resp'.set_access.v).ok
           /\ EmptyTenantIdArray(DecodeClaims(resp'.set_access.v).claims))
          => session'.user.tenant =
                FirstPresent(DecodeClaims(resp'.set_access.v).claims,
                             Tail(TenantOrder), DefaultTenant)
       /\ (/\ req'.op = "user"
           /\ jar.access_token.some
           /\ DecodeClaims(jar.access_token.v).ok
           /\ EmptyTenantIdArray(DecodeClaims(jar.access_token.v).claims))
          => session'.tenant =
                FirstPresent(DecodeClaims(jar.access_token.v).claims,
                             Tail(TenantOrder), SessionTenantOrDefault(session))]_vars

\* C10: for claims whose present tenant fields are non-empty strings (or
\* TenantId a non-empty array), callback, refresh, verify and direct grant
\* store, and user info resolves, the value of the first present field in
\* the order TenantId, tenant_id, tenantId, Tenant, tenant; with none present
\* the session tenant (user info only) and otherwise "Default".
C10_TenantPrecedence ==
    [][/\ (/\ req'.op \in {"callback", "refresh", "verify", "direct"}
           /\ SetsAccess(resp')
           /\ DecodeClaims(resp'.set_access.v).ok
           /\ WellFormedTenantClaims(DecodeClaims(resp'.set_access.v).claims))
          => (/\ session'.user.some
              /\ session'.user.tenant =
                    FirstPresent(DecodeClaims(resp'.set_access.v).claims,
                                 TenantOrder, DefaultTenant))
       /\ (/\ req'.op = "user"
           /\ jar.access_token.some
           /\ DecodeClaims(jar.access_token.v).ok
           /\ WellFormedTenantClaims(DecodeClaims(jar.access_token.v).claims))
          => session'.tenant =
                FirstPresent(DecodeClaims(jar.access_token.v).claims,
                             TenantOrder, SessionTenantOrDefault(session))]_vars

\* C10 witness: the session user holds the tenant of a token that carries
\* both Tenant and tenant, and user info then resolved the same token.
C10_Witness ==
    /\ req.op = "user"
    /\ jar.access_token.some
    /\ DecodeClaims(jar.access_token.v).ok
    /\ DOMAIN DecodeClaims(jar.access_token.v).claims = {"Tenant", "tenant"}
    /\ session.user.tenant = JStr("t4")
    /\ session.tenant = JStr("t4")

-----------------------------------------------------------------------------
(* The data plane                                                          *)

\* C11: every non-OPTIONS request to the NGSI-LD proxy that carries no
\* access_token cookie is answered 401 with the Unauthorized error body, and
\* the broker is not contacted for it, whatever the method, headers or body.
C11_NoCookieUnauthorized ==
    [][(/\ req'.op = "ngsi_ld_proxy"
        /\ req'.inb.method # "OPTIONS"
        /\ ~jar.access_token.some)
       => /\ resp'.status = 401
          /\ out'.body.keys = {"error"}
          /\ out'.body.error = <<"Unauthorized access. Please log in first.">>
          /\ out'.broker_calls = 0
          /\ ~out'.outbound.sent
          /\ req'.broker.kind = "none"]_vars

\* A POST with an Authorization header and a body, but no cookie, was refused.
C11_Witness ==
    /\ req.op = "ngsi_ld_proxy"
    /\ req.inb = Inbound("POST", BrowserHeaders, "entity")
    /\ ~jar.access_token.some
    /\ resp.status = 401
    /\ out.broker_calls = 0

\* C12: an OPTIONS request to the NGSI-LD proxy, with or without an
\* access_token cookie, does not contact the broker and is answered 200 with
\* Access-Control-Allow-Origin *, the allow-headers value and the fixed
\* allow-methods list.
C12_PreflightAnswered ==
    [][(req'.op = "ngsi_ld_proxy" /\ req'.inb.method = "OPTIONS")
       => /\ resp'.status = 200
          /\ out'.broker_calls = 0
          /\ ~out'.outbound.sent
          /\ req'.broker.kind = "none"
          /\ DOMAIN out'.headers =
                 {"Access-Control-Allow-Origin", "Access-Control-Allow-Headers",
                  "Access-Control-Allow-Methods"}
          /\ out'.headers["Access-Control-Allow-Origin"] = "*"
          /\ out'.headers["Access-Control-Allow-Headers"] =
                 "Content-Type, Authorization, NGSILD-Tenant"
          /\ out'.headers["Access-Control-Allow-Methods"] =
                 "GET, POST, PUT, DELETE, PATCH, OPTIONS"]_vars

\* A preflight was answered while the browser held an access_token cookie.
C12_Witness ==
    /\ req.op = "ngsi_ld_proxy"
    /\ req.inb.method = "OPTIONS"
    /\ jar.access_token.some
    /\ resp.status = 200
    /\ "Access-Control-Allow-Methods" \in DOMAIN out.headers

\* The value of a header field of a message: none when no line has the
\* name (in any letter case), else the values of its lines in wire order,
\* combined with the separator.
FieldValue(lines, name, sep) ==
    LET at == SelectSeq([i \in DOMAIN lines |-> i],
                        LAMBDA i : Lower(lines[i][1]) = Lower(name))
    IN IF at = <<>> THEN None_
       ELSE Some(Join([j \in DOMAIN at |-> lines[at[j]][2]], sep))

\* C13: the request sent to the broker by the NGSI-LD proxy carries an
\* NGSILD-Tenant header exactly when the inbound request has a non-empty
\* NGSILD-Tenant value that is not "default" in any letter case and is not
\* the literal "Synchro"; the value carried is the inbound value.
C13_TenantHeaderForwarded ==
    [][(req'.op = "ngsi_ld_proxy" /\ out'.outbound.sent)
       => LET inbound == FieldValue(req'.inb.headers, "NGSILD-Tenant", ",")
              sent == out'.outbound.headers
              wanted == /\ inbound.some
                        /\ inbound.v # ""
                        /\ Lower(inbound.v) # "default"
                        /\ inbound.v # "Synchro"
          IN /\ ("NGSILD-Tenant" \in DOMAIN sent) = wanted
             /\ wanted => sent["NGSILD-Tenant"] = inbound.v]_vars

\* The lower-case spelling "synchro" of the reserved name went out to the
\* broker unchanged.
C13_Witness ==
    /\ req.op = "ngsi_ld_proxy"
    /\ out.outbound.sent
    /\ req.inb.headers = <<<<"NGSILD-Tenant", "synchro">>>>
    /\ "NGSILD-Tenant" \in DOMAIN out.outbound.headers
    /\ out.outbound.headers["NGSILD-Tenant"] = "synchro"

ProxyOps == {"ngsi_ld_proxy", "proxy_request"}
SafeHeaderNames ==
    {"content-type", "content-length", "cache-control", "etag", "last-modified"}
CorsHeaderNames ==
    {"Access-Control-Allow-Origin", "Access-Control-Allow-Headers"}

\* C14: for every broker response a proxy returns the broker's status code
\* and body unchanged, returns no broker header outside the allowlist
\* content-type, content-length, cache-control, etag, last-modified, and
\* adds the permissive CORS headers.
C14_BrokerResponsePassedThrough ==
    [][(req'.op \in ProxyOps /\ req'.broker.kind = "http")
       => /\ resp'.status = req'.broker.status
          /\ out'.body = RawBody(req'.broker.content)
          /\ \A h \in DOMAIN out'.headers \ CorsHeaderNames :
                 /\ Lower(h) \in SafeHeaderNames
                 /\ FieldValue(req'.broker.headers, h, ", ") = Some(out'.headers[h])
          /\ CorsHeaderNames \subseteq DOMAIN out'.headers
          /\ out'.headers["Access-Control-Allow-Origin"] = "*"]_vars

\* C15: when the call to the broker fails at the network level, a proxy
\* answers 503 if the failure is a connection refusal and 500 for every other
\* fault (a timeout included), and in both cases the body is a JSON object
\* with an error field and a technical_details field.
C15_NetworkFaultTranslated ==
    [][(req'.op \in ProxyOps /\ req'.broker.kind = "fault")
       => /\ resp'.status = IF req'.broker.refused THEN 503 ELSE 500
          /\ {"error", "technical_details"} \subseteq out'.body.keys]_vars

-----------------------------------------------------------------------------
(* Token introspection and verification                                    *)

IntrospectionOps == {"user", "details"}

\* A cookie value that does not decode: not three segments, or a payload
\* that is not base64, or not JSON.
Undecodable(token) ==
    \/ Len(token) # 3
    \/ token[2].kind \in {"badb64", "notjson"}

\* C16: GET /api/auth/user and GET /api/auth/token-details never answer an
\* error status: they answer 200, and with authenticated false when the
\* access_token cookie is absent or its value does not decode (wrong number
\* of segments, invalid base64, payload not JSON).
C16_IntrospectionNeverFails ==
    [][req'.op \in IntrospectionOps
       => /\ resp'.status = 200
          /\ (~jar.access_token.some \/ Undecodable(jar.access_token.v))
                 => out'.body.authenticated = "false"]_vars

\* C17: GET /api/auth/user and GET /api/auth/token-details leave the session
\* record (user and tenant) and all cookies exactly as they were.
C17_IntrospectionReadOnly ==
    [][req'.op \in IntrospectionOps
       => /\ session'.user = session.user
          /\ session'.tenant = session.tenant
          /\ jar' = jar
          /\ SetsNoTokenCookie(resp')
          /\ resp'.set_logged_out.op = "none"]_vars

\* The access token a step decodes: the one the provider issued, the one in
\* the request body, or the one in the cookie.
DecodedToken ==
    CASE req'.op \in {"callback", "refresh", "direct"} -> req'.idp.pair.access
      [] req'.op = "verify" ->
            [some |-> req'.body.kind = "token", v |-> req'.body.tok]
      [] req'.op \in IntrospectionOps -> jar.access_token
      [] OTHER -> NoneTok

\* C18: every flow that decodes an access token (callback, refresh, verify,
\* direct grant, user info, token details) treats a token without exactly
\* three segments as malformed: no username or tenant is taken from it into
\* the session, and it is not reported as authenticated.
C18_ThreeSegmentsRequired ==
    [][(DecodedToken.some /\ Len(DecodedToken.v) # 3)
       => /\ session'.user = session.user
          /\ session'.tenant = session.tenant
          /\ out'.body.authenticated # "true"]_vars

\* C19: a successful verify sets the access_token cookie max-age to
\* exp - iat when the token has both claims, and to 3600 when exp or iat is
\* missing.
C19_VerifyMaxAge ==
    [][(req'.op = "verify" /\ resp'.status = 200)
       => LET claims == req'.body.tok[2].claims IN
          /\ resp'.set_access.op = "set"
          /\ resp'.set_access.max_age =
                 IF {"exp", "iat"} \subseteq DOMAIN claims
                     THEN claims["exp"].n - claims["iat"].n
                     ELSE 3600]_vars

\* C20: POST /api/auth/verify-token never calls the identity provider, never
\* sets or changes the refresh_token cookie, and on success the access_token
\* cookie it sets holds exactly the token of the request body.
C20_VerifyDoesNotMint ==
    [][req'.op = "verify"
       => /\ resp'.idp_calls = 0
          /\ req'.idp.kind = "none"
          /\ resp'.set_refresh.op = "none"
          /\ jar'.refresh_token = jar.refresh_token
          /\ resp'.status = 200
                 => /\ resp'.set_access.op = "set"
                    /\ resp'.set_access.v = req'.body.tok]_vars

\* A verify succeeded next to a refresh cookie from an earlier login, and the
\* access cookie holds the submitted token.
C20_Witness ==
    /\ req.op = "verify"
    /\ resp.status = 200
    /\ req.body.tok = TokBob
    /\ jar.refresh_token = Some("r1")
    /\ jar.access_token = [some |-> TRUE, v |-> TokBob]
    /\ session.user.username = JStr("bob")

-----------------------------------------------------------------------------
(* Sessions over time                                                      *)

\* C21: a successful refresh and a successful direct grant update the
\* cookies as a successful callback does, the logged_out marker included:
\* after any of the three has succeeded, the browser does not hold both an
\* access_token cookie and the logged_out marker.
C21_GrantClearsLogoutMarker ==
    [][(\/ req'.op = "callback" /\ resp'.status = 302
        \/ req'.op \in {"refresh", "direct"} /\ resp'.status = 200)
       => ~(jar'.access_token.some /\ jar'.logged_out.some)]_vars

\* The outbound call of the step failed: the provider raised or answered an
\* error status, or the call to the broker failed in the network.
OutboundFailed ==
    \/ req'.idp.kind = "raise"
    \/ req'.idp.kind = "http" /\ req'.idp.status >= 400
    \/ req'.broker.kind = "fault"

AtMostOneCall == resp'.idp_calls <= 1 /\ out'.broker_calls <= 1

\* C22, as stated: each request causes at most one call to the identity
\* provider and at most one call to the broker, and a failed outbound call is
\* reported to the caller (an error status) in the response of that request.
C22_NoRetryFailureReported ==
    [][AtMostOneCall /\ (OutboundFailed => resp'.status >= 400)]_vars

\* C22, amended: each request causes at most one call to the identity
\* provider and at most one call to the broker, and a failed outbound call is
\* reported to the caller in the response of that request, except by logout,
\* which answers its redirect whatever the provider did.
C22_NoRetryFailureReportedButLogout ==
    [][/\ AtMostOneCall
       /\ (OutboundFailed /\ req'.op # "logout") => resp'.status >= 400
       /\ req'.op = "logout" => resp'.status = 302]_vars

\* A refresh whose single provider call failed was answered 401.
C22_Witness ==
    /\ req.op = "refresh"
    /\ req.idp = IdpHttp(401, TRUE, NoPair)
    /\ resp.idp_calls = 1
    /\ resp.status = 401

\* C23: POST /api/auth/tenant with a non-empty tenant T answers 200 and sets
\* the session tenant to T, leaving the session user and all cookies
\* unchanged; with tenant missing or empty it answers 400 and leaves the
\* whole session unchanged.
C23_SetTenantFrame ==
    [][req'.op = "tenant"
       => /\ jar' = jar
          /\ session'.user = session.user
          /\ IF JTruthy(req'.body.tenant)
                 THEN resp'.status = 200 /\ session'.tenant = req'.body.tenant
                 ELSE resp'.status = 400 /\ session' = session]_vars

\* C24: the request that ngsi_ld_proxy sends to the broker carries only
\* Content-Type, Accept and, conditionally, NGSILD-Tenant and Authorization;
\* the inbound Host header and the inbound cookies are not forwarded, and
\* Authorization is forwarded exactly when the inbound request has it, with
\* the same value.
C24_OutboundHeaderSubset ==
    [][(req'.op = "ngsi_ld_proxy" /\ out'.outbound.sent)
       => LET inbound == req'.inb.headers
              sent == out'.outbound.headers
          IN /\ {"Content-Type", "Accept"} \subseteq DOMAIN sent
             /\ DOMAIN sent \subseteq
                    {"Content-Type", "Accept", "NGSILD-Tenant", "Authorization"}
             /\ \A h \in DOMAIN sent : Lower(h) \notin {"host", "cookie"}
             /\ ("Authorization" \in DOMAIN sent)
                    = FieldValue(inbound, "Authorization", ",").some
             /\ "Authorization" \in DOMAIN sent
                    => sent["Authorization"]
                           = FieldValue(inbound, "Authorization", ",").v]_vars

\* A request that came with Host, Cookie and Authorization went to the
\* broker with Authorization and without the other two.
C24_Witness ==
    /\ req.op = "ngsi_ld_proxy"
    /\ out.outbound.sent
    /\ \A n \in {"Host", "Cookie", "Authorization"} :
           FieldValue(req.inb.headers, n, ",").some
    /\ "Authorization" \in DOMAIN out.outbound.headers
    /\ "Cookie" \notin DOMAIN out.outbound.headers

-----------------------------------------------------------------------------
(* Requests in flight together                                             *)

GrantOps == {"refresh", "verify", "direct"}

\* C25: when a refresh was issued before a logout response is applied and
\* its response arrives after, and no grant has succeeded in between, then
\* after both the browser holds no access_token or refresh_token cookie and
\* the session holds no user: the logout is not undone by the refresh.
C25_LogoutNotUndone ==
    [][(req'.op = "refresh" /\ "logout" \in req'.peers /\ after_logout)
       => /\ ~jar'.access_token.some
          /\ ~jar'.refresh_token.some
          /\ ~session'.user.some]_vars

\* C26: when a tenant-set request and a refresh, verify or direct grant run
\* together and both succeed, the response that arrives second does not
\* lose what the first wrote: the session tenant survives the grant, and the
\* session user survives the tenant-set.
C26_NoLostSessionWrite ==
    [][/\ (req'.op \in GrantOps /\ resp'.status = 200 /\ req'.peers = {"tenant"})
           => session'.tenant = session.tenant
       /\ (req'.op = "tenant" /\ resp'.status = 200 /\ req'.peers = {"grant"})
           => session'.user = session.user]_vars

\* C28: after a logout response has been applied and until a callback,
\* verify or direct grant succeeds, every non-OPTIONS request to the NGSI-LD
\* proxy (one made after the logout, not one that was under way when the
\* logout was applied) is answered 401 and the broker is not contacted.
C28_LoggedOutMeansUnauthorized ==
    [][(/\ req'.op = "ngsi_ld_proxy"
        /\ req'.inb.method # "OPTIONS"
        /\ "logout" \notin req'.peers
        /\ after_logout)
       => resp'.status = 401 /\ out'.broker_calls = 0]_vars

-----------------------------------------------------------------------------
(* State tokens, tenant of the forwarded call, session and cookie          *)

\* C27: each login overwrites the session's state token: a callback (made
\* after the latest login, not one that was under way during it) that
\* presents the state token of an earlier login is rejected with 400 and
\* changes nothing, and a callback that gets past the state check presents
\* the token of the most recent login.
C27_LoginOverwritesState ==
    [][(req'.op = "callback" /\ "login" \notin req'.peers)
       => /\ (\E n \in 1..(logins - 1) : req'.state = Some(Uuid(n)))
                 => /\ resp'.status = 400
                    /\ resp'.idp_calls = 0
                    /\ session' = session
                    /\ jar' = jar
          /\ (resp'.idp_calls > 0 \/ resp'.status # 400)
                 => req'.state = Some(Uuid(logins))]_vars

\* The NGSILD-Tenant header of a header map, or None.
TenantOf(h) ==
    IF "NGSILD-Tenant" \in DOMAIN h THEN Some(h["NGSILD-Tenant"]) ELSE None_

\* A browser that holds only an access_token cookie and an empty session.
PlainJar == [EmptyJar EXCEPT !.access_token = [some |-> TRUE, v |-> TokOpaque]]

\* C29: the tenant attached to a forwarded broker call is a function of the
\* inbound NGSILD-Tenant header alone: the same inbound request sent with
\* another session (no session tenant, no user) and another access token
\* (one without tenant claims) produces the same outbound tenant header.
C29_TenantFromHeaderAlone ==
    [][(req'.op = "ngsi_ld_proxy" /\ out'.outbound.sent)
       => TenantOf(out'.outbound.headers) =
              TenantOf(ngsi_ld_proxy(EmptySession, PlainJar, req'.inb,
                                     req'.broker).out.outbound.headers)]_vars

\* A call without a tenant header was forwarded without one, although the
\* session tenant is acme and the token in the cookie names tenant t2.
C29_Witness ==
    /\ req.op = "ngsi_ld_proxy"
    /\ out.outbound.sent
    /\ ~FieldValue(req.inb.headers, "NGSILD-Tenant", ",").some
    /\ "NGSILD-Tenant" \notin DOMAIN out.outbound.headers
    /\ session.tenant = JStr("acme")
    /\ session.user.tenant = JStr("t2")
    /\ jar.access_token = [some |-> TRUE, v |-> TokBob]

\* C30: whenever the session holds a user record, the browser holds an
\* access_token cookie and the user's tenant is the tenant resolved from the
\* token in that cookie.
C30_SessionTenantMatchesCookie ==
    session.user.some
        => /\ jar.access_token.some
           /\ DecodeClaims(jar.access_token.v).ok
           /\ session.user.tenant =
                  ResolveTenant(DecodeClaims(jar.access_token.v).claims, DefaultTenant)

====
